---- MODULE Spec2Model ----
(***************************************************************************)
(* Transaction-confirmation race coordinator (raceStrategies) and its two  *)
(* lifetime-specific waiters, waitForDurableNonceTransactionConfirmation   *)
(* and waitForRecentTransactionConfirmation.                               *)
(*                                                                         *)
(* The model follows one confirmation call at a time through the           *)
(* synchronous prefix of raceStrategies (abort check, signature            *)
(* derivation, listener registration, the two factory invocations), the    *)
(* suspension on Promise.race, and the continuation that runs the finally  *)
(* block.  The environment is the caller (who may abort its signal) and    *)
(* the signal factories (whose promises settle).                           *)
(***************************************************************************)
EXTENDS Naturals, Sequences, FiniteSets

\* ------------------------------------------------------------------ bounds
\* Number of confirmation calls made one after the other.
MaxCalls == 2

\* ------------------------------------------------------------- vocabulary
\* The two waiters: which lifetime-specific factory the call races.
Kinds == {"nonce", "blockheight"}

\* A confirmation is requested from the waiter directly or from the
\* function returned by createDefault...Confirmer.
Vias == {"direct", "confirmer"}

\* The racing set of one call: the promises returned by
\* getSpecificStrategiesForRace (one, in both waiters) and the promise of
\* getRecentSignatureConfirmationPromise.
Factories == {"specific", "recentSignature"}

\* A settlement: status, the error it carries and who produced it.
None == [status |-> "pending", error |-> "none", by |-> "none"]
NotCreated == [status |-> "none", error |-> "none", by |-> "none"]
Resolved(f) == [status |-> "resolved", error |-> "none", by |-> f]
Rejected(e, f) == [status |-> "rejected", error |-> e, by |-> f]

Settled(p) == p.status \in {"resolved", "rejected"}

VARIABLES
    calls,            \* number of calls started so far
    kind,             \* waiter of the current call
    pc,               \* position of the current call
    callerAborted,    \* config.abortSignal.aborted
    internalAborted,  \* abortController.signal.aborted
    listener,         \* handleAbort is registered on the caller's signal
    invoked,          \* factories invoked by this call, in order
    promise,          \* state of each racing promise
    cause,            \* why each racing promise settled
    observed,         \* abort events each factory saw on the signal it got
    settleOrder,      \* racing promises in the order they settled
    raceState,        \* settlement of the Promise.race promise
    completion,       \* completion of raceStrategies' body: its promise
    outcome,          \* settlement of the waiter's promise, held by the caller
    aborts,           \* abort events fired by the internal signal in this call
    via,              \* the call is made directly or through a confirmer
    built,            \* per kind: constructions of the confirmer's factories
    confirmerOutcome  \* settlement of the confirmer function's promise

vars == <<calls, kind, pc, callerAborted, internalAborted, listener, invoked,
          promise, cause, observed, settleOrder, raceState, completion,
          outcome, aborts, via, built, confirmerOutcome>>

\* ------------------------------------------------- the code's operations

\* Variant: the entry check is missing.
ThrowIfAborted_never(aborted) == FALSE

\* callerAbortSignal.throwIfAborted(): throws iff the signal is aborted.
ThrowIfAborted(aborted) == aborted

\* Variant: handleAbort does not forward the abort to the internal controller.
handleAbort_noForward(ctl) == ctl

\* Variant: handleAbort also rejects the promise returned to the caller.
handleAbort_rejects(ctl) ==
    [aborted |-> TRUE,
     outcome |-> [status |-> "rejected", error |-> "aborted", by |-> "caller"]]

\* handleAbort() { abortController.abort(); } acting on what its closure
\* reaches: the internal controller.  The promise returned to the caller is
\* not touched.
handleAbort(ctl) == [ctl EXCEPT !.aborted = TRUE]

\* Variant: no finally block, the internal signal is not aborted on exit.
FinallyBlock_noAbort(sigs) == sigs

\* Variant: cleanup also aborts the caller's signal.
FinallyBlock_abortsCaller(sigs) == [internal |-> TRUE, caller |-> TRUE]

\* finally { abortController.abort(); }: aborts the internal signal and
\* nothing else.
FinallyBlock(sigs) == [sigs EXCEPT !.internal = TRUE]

\* Variant: the listener is added without the { signal } option.
RemovedWithSignal_missing == FALSE

\* addEventListener('abort', handleAbort, { signal: abortController.signal }):
\* the listener is removed when the internal signal aborts.
RemovedWithSignal == TRUE

\* Variant: first success wins (Promise.any): rejections do not end the race.
PromiseRace_firstSuccess(rs, s) ==
    IF rs = None /\ s.status = "resolved" THEN s ELSE rs

\* Promise.race: the first settlement settles the race, later ones are
\* discarded.
PromiseRace(rs, s) == IF rs = None THEN s ELSE rs

\* Variant: the listener is never registered on the caller's signal.
addEventListener_skipped(l) == l

\* callerAbortSignal.addEventListener('abort', handleAbort, ...): handleAbort
\* is registered.
addEventListener(l) == TRUE

\* Variant: the signature-confirmation factory is invoked first.
InvocationOrder_reversed == <<"recentSignature", "specific">>

\* The try block evaluates getSpecificStrategiesForRace(...) first, then the
\* elements of the array given to Promise.race, the first of which is the
\* call of getRecentSignatureConfirmationPromise.
InvocationOrder == <<"specific", "recentSignature">>

\* Variant: the race is returned without await, the continuation does not
\* wait for a settlement.
AwaitReady_noAwait(rs) == TRUE

\* await Promise.race([...]): the continuation runs once the race settled.
AwaitReady(rs) == rs # None

\* Variant: a rejected attempt is retried from the factory invocations.
NextAfterFinally_retry(c) ==
    IF c.status = "rejected" THEN "specific" ELSE "returned"

\* Leaving the finally block completes raceStrategies: the value is returned
\* or the error rethrown, nothing is invoked again.
NextAfterFinally(c) == "returned"

\* Variant: every abort() request notifies the factories again.
Dispatch_everyRequest(obs, before, after) ==
    [f \in Factories |->
        IF after /\ promise[f].status # "none" THEN obs[f] + 1 ELSE obs[f]]

\* Dispatch of the internal signal's abort event.  It fires once, when the
\* flag goes from not aborted to aborted, to every factory that was handed
\* the signal.
Dispatch(obs, before, after) ==
    [f \in Factories |->
        IF ~before /\ after /\ promise[f].status # "none"
        THEN obs[f] + 1 ELSE obs[f]]

\* Number of abort events fired by the internal signal.
AbortEvents(n, before, after) == IF ~before /\ after THEN n + 1 ELSE n

ListenerAfter(l, before, after) ==
    IF ~before /\ after /\ RemovedWithSignal THEN FALSE ELSE l

\* The array given to Promise.race: the signature-confirmation promise
\* first, then the specific strategies.
RaceInputs == <<"recentSignature", "specific">>

\* Promise.race subscribes to its inputs in array order; an input that is
\* already settled gets its reaction queued at once.
Subscribe(rs, p) == IF Settled(p) THEN PromiseRace(rs, p) ELSE rs

RaceCreate(ps) ==
    Subscribe(Subscribe(None, ps[RaceInputs[1]]), ps[RaceInputs[2]])

\* Promise.race([...]) was reached: both racing promises exist.
RaceCreated == \A f \in Factories : promise[f].status # "none"

\* createDefaultDurableNonceTransactionConfirmer /
\* createDefaultRecentTransactionConfirmer: the two signal factories are
\* constructed when the confirmer is created.
createConfirmer(n) == n + 1

\* Variant: the factories are constructed inside the confirmer function.
confirmerCallBuilds_perCall(n) == n + 1

\* confirmTransaction / confirmRecentTransaction construct nothing: they
\* pass the factories of their closure to the waiter.
confirmerCallBuilds(n) == n

\* Variant: the confirmer function swallows the waiter's rejection.
confirmTransaction_swallows(o) ==
    [status |-> "resolved", error |-> "none", by |-> o.by]

\* await waitFor...Confirmation({...config, factories}): the confirmer
\* function settles as the waiter settled.
confirmTransaction(o) == o

\* ------------------------------------------------------ signal factories
\* Settlements a factory produces on its own, with their causes.
\* recentSignature: resolves once the signature reaches the commitment,
\* rejects on failure.  specific: rejects once the nonce diverged / the
\* block height was exceeded, rejects on failure.
FactorySettlements(f) ==
    IF f = "recentSignature"
    THEN {[cause |-> "confirmed", s |-> Resolved(f)],
          [cause |-> "failure", s |-> Rejected("error", f)]}
    ELSE {[cause |-> "condition", s |-> Rejected("invalidated", f)],
          [cause |-> "failure", s |-> Rejected("error", f)]}

\* A factory that observed cancellation stops its work and rejects.
CancelledSettlement(f) == Rejected("aborted", f)

\* ------------------------------------------------------------------- Init
FreshPromises == [f \in Factories |-> NotCreated]

Init ==
    /\ calls = 1
    /\ kind \in Kinds
    /\ pc = "start"
    /\ callerAborted = FALSE
    /\ internalAborted = FALSE
    /\ listener = FALSE
    /\ invoked = <<>>
    /\ promise = FreshPromises
    /\ cause = [f \in Factories |-> "none"]
    /\ observed = [f \in Factories |-> 0]
    /\ settleOrder = <<>>
    /\ raceState = None
    /\ completion = None
    /\ outcome = None
    /\ aborts = 0
    /\ via \in Vias
    /\ built = [k \in Kinds |-> 0]
    /\ confirmerOutcome = None

\* ---------------------------------------------------------------- actions

\* The caller aborts its signal.  The abort event reaches handleAbort if it
\* is registered; handleAbort aborts the internal signal synchronously.
\* Cannot interleave with the synchronous parts of the call.
CallerAbort ==
    /\ ~callerAborted
    /\ pc \in {"start", "awaiting", "returned", "done"}
    /\ callerAborted' = TRUE
    /\ LET ctl == [aborted |-> internalAborted, outcome |-> outcome]
           after == IF listener THEN handleAbort(ctl) ELSE ctl
       IN /\ internalAborted' = after.aborted
          /\ outcome' = after.outcome
          /\ observed' = Dispatch(observed, internalAborted, after.aborted)
          /\ listener' = ListenerAfter(listener, internalAborted, after.aborted)
          /\ aborts' = AbortEvents(aborts, internalAborted, after.aborted)
    /\ UNCHANGED <<calls, kind, pc, invoked, promise, cause, settleOrder,
                   raceState, completion,
                   via, built, confirmerOutcome>>

\* raceStrategies is entered: callerAbortSignal.throwIfAborted().
Enter ==
    /\ pc = "start"
    /\ via = "confirmer" => built[kind] >= 1
    /\ built' = IF via = "confirmer"
                THEN [built EXCEPT ![kind] = confirmerCallBuilds(@)]
                ELSE built
    /\ IF ThrowIfAborted(callerAborted)
       THEN /\ pc' = "returned"
            /\ completion' = Rejected("aborted", "caller")
       ELSE /\ pc' = "derive"
            /\ UNCHANGED completion
    /\ UNCHANGED <<calls, kind, callerAborted, internalAborted, listener,
                   invoked, promise, cause, observed, settleOrder, raceState,
                   outcome,
                   aborts, via, confirmerOutcome>>

\* getSignatureFromTransaction(transaction): returns, or throws when the
\* transaction carries no fee-payer signature.  Outside the try block.
DeriveSignature ==
    /\ pc = "derive"
    /\ \E throws \in BOOLEAN :
        IF throws
        THEN /\ pc' = "returned"
             /\ completion' = Rejected("thrown", "getSignatureFromTransaction")
        ELSE /\ pc' = "listen"
             /\ UNCHANGED completion
    /\ UNCHANGED <<calls, kind, callerAborted, internalAborted, listener,
                   invoked, promise, cause, observed, settleOrder, raceState,
                   outcome,
                   aborts, via, built, confirmerOutcome>>

\* new AbortController(); callerAbortSignal.addEventListener(...).
RegisterListener ==
    /\ pc = "listen"
    /\ internalAborted' = FALSE
    /\ aborts' = 0
    /\ listener' = addEventListener(listener)
    /\ pc' = "specific"
    /\ UNCHANGED <<calls, kind, callerAborted, invoked, promise, cause,
                   observed, settleOrder, raceState, completion, outcome,
                   via, built, confirmerOutcome>>

\* Invocation of factory f with the internal signal: it throws
\* synchronously, or returns a promise that is pending or already settled.
\* The second invocation is followed by Promise.race([...]) and the await,
\* which suspends the call.
Invoke(f, next) ==
    /\ invoked' = Append(invoked, f)
    /\ \/ /\ completion' = Rejected("thrown", f)
          /\ pc' = "finally"
          /\ UNCHANGED <<promise, cause, settleOrder, raceState>>
       \/ \E r \in {[cause |-> "none", s |-> None]} \cup FactorySettlements(f) :
          /\ promise' = [promise EXCEPT ![f] = r.s]
          /\ cause' = [cause EXCEPT ![f] = r.cause]
          /\ settleOrder' = IF Settled(r.s) THEN Append(settleOrder, f)
                            ELSE settleOrder
          /\ raceState' = IF next = "awaiting" THEN RaceCreate(promise')
                          ELSE raceState
          /\ pc' = next
          /\ UNCHANGED completion
    /\ UNCHANGED <<calls, kind, callerAborted, internalAborted, listener,
                   observed, outcome, aborts, via, built, confirmerOutcome>>

\* getSpecificStrategiesForRace({...config, abortSignal: internal}): the
\* waiter's callback reads the transaction (transaction.lifetimeConstraint,
\* transaction.instructions[0].accounts[0]) to build the factory's
\* arguments, which throws on an ill-formed transaction before the factory
\* is called; otherwise it calls the factory.
InvokeSpecific ==
    /\ pc = "specific"
    /\ \/ Invoke(InvocationOrder[1], "generic")
       \/ /\ completion' = Rejected("thrown", "getSpecificStrategiesForRace")
          /\ pc' = "finally"
          /\ UNCHANGED <<calls, kind, callerAborted, internalAborted,
                         listener, invoked, promise, cause, observed,
                         settleOrder, raceState, outcome, aborts, via, built,
                         confirmerOutcome>>

\* getRecentSignatureConfirmationPromise({abortSignal: internal, ...});
\* then Promise.race([...]) and the await suspends the call.
InvokeGeneric ==
    /\ pc = "generic"
    /\ Invoke(InvocationOrder[2], "awaiting")

\* A racing promise settles with its factory's own result.  Cancellation is
\* cooperative: nothing in raceStrategies keeps a factory that was handed an
\* aborted signal from still resolving or rejecting on its own.
Settle(f) ==
    /\ pc \in {"awaiting", "returned", "done"}
    /\ promise[f].status = "pending"
    /\ \E r \in FactorySettlements(f) :
        /\ promise' = [promise EXCEPT ![f] = r.s]
        /\ cause' = [cause EXCEPT ![f] = r.cause]
        /\ raceState' = IF RaceCreated
                        THEN PromiseRace(raceState, r.s) ELSE raceState
    /\ settleOrder' = Append(settleOrder, f)
    /\ UNCHANGED <<calls, kind, pc, callerAborted, internalAborted, listener,
                   invoked, observed, completion, outcome,
                   aborts, via, built, confirmerOutcome>>

\* A racing promise whose factory observed cancellation rejects.
SettleCancelled(f) ==
    /\ pc \in {"awaiting", "returned", "done"}
    /\ promise[f].status = "pending"
    /\ observed[f] > 0
    /\ promise' = [promise EXCEPT ![f] = CancelledSettlement(f)]
    /\ cause' = [cause EXCEPT ![f] = "cancel"]
    /\ raceState' = IF RaceCreated
                    THEN PromiseRace(raceState, CancelledSettlement(f))
                    ELSE raceState
    /\ settleOrder' = Append(settleOrder, f)
    /\ UNCHANGED <<calls, kind, pc, callerAborted, internalAborted, listener,
                   invoked, observed, completion, outcome,
                   aborts, via, built, confirmerOutcome>>

\* The await continuation: the race settled, control enters finally.
Resume ==
    /\ pc = "awaiting"
    /\ AwaitReady(raceState)
    /\ completion' = raceState
    /\ pc' = "finally"
    /\ UNCHANGED <<calls, kind, callerAborted, internalAborted, listener,
                   invoked, promise, cause, observed, settleOrder, raceState,
                   outcome,
                   aborts, via, built, confirmerOutcome>>

\* finally { abortController.abort(); }: raceStrategies' promise settles
\* with the completion.
Finally ==
    /\ pc = "finally"
    /\ LET sigs == [internal |-> internalAborted, caller |-> callerAborted]
           after == FinallyBlock(sigs)
       IN /\ internalAborted' = after.internal
          /\ callerAborted' = after.caller
          /\ observed' = Dispatch(observed, internalAborted, after.internal)
          /\ listener' = ListenerAfter(listener, internalAborted, after.internal)
          /\ aborts' = AbortEvents(aborts, internalAborted, after.internal)
    /\ pc' = NextAfterFinally(completion)
    /\ UNCHANGED <<calls, kind, invoked, promise, cause, settleOrder, raceState,
                   completion, outcome,
                   via, built, confirmerOutcome>>

\* The waiter resumes from await raceStrategies(...), one job after
\* raceStrategies' promise settled, and its own promise settles the same way.
WaiterReturn ==
    /\ pc = "returned"
    /\ outcome' = completion
    /\ pc' = "done"
    /\ UNCHANGED <<calls, kind, callerAborted, internalAborted, listener,
                   invoked, promise, cause, observed, settleOrder, raceState,
                   completion, aborts, via, built, confirmerOutcome>>

\* The caller creates the confirmer of kind k.
CreateConfirmer(k) ==
    /\ pc \in {"start", "done"}
    /\ built[k] = 0
    /\ built' = [built EXCEPT ![k] = createConfirmer(@)]
    /\ UNCHANGED <<calls, kind, pc, callerAborted, internalAborted, listener,
                   invoked, promise, cause, observed, settleOrder, raceState,
                   completion, outcome, aborts, via, confirmerOutcome>>

\* The waiter's promise settled: the confirmer function's await resumes and
\* its own promise settles.
ConfirmerReturn ==
    /\ pc = "done"
    /\ via = "confirmer"
    /\ confirmerOutcome = None
    /\ confirmerOutcome' = confirmTransaction(outcome)
    /\ UNCHANGED <<calls, kind, pc, callerAborted, internalAborted, listener,
                   invoked, promise, cause, observed, settleOrder, raceState,
                   completion, outcome, aborts, via, built>>

\* The caller makes another confirmation call, with the same (possibly
\* aborted) signal or a fresh one.
NewCall ==
    /\ pc = "done"
    /\ via = "confirmer" => confirmerOutcome # None
    /\ calls < MaxCalls
    /\ calls' = calls + 1
    /\ kind' \in Kinds
    /\ callerAborted' \in {callerAborted, FALSE}
    /\ pc' = "start"
    /\ internalAborted' = FALSE
    /\ listener' = FALSE
    /\ invoked' = <<>>
    /\ promise' = FreshPromises
    /\ cause' = [f \in Factories |-> "none"]
    /\ observed' = [f \in Factories |-> 0]
    /\ settleOrder' = <<>>
    /\ raceState' = None
    /\ completion' = None
    /\ outcome' = None
    /\ aborts' = 0
    /\ via' \in Vias
    /\ confirmerOutcome' = None
    /\ UNCHANGED built

Next ==
    \/ CallerAbort
    \/ Enter
    \/ DeriveSignature
    \/ RegisterListener
    \/ InvokeSpecific
    \/ InvokeGeneric
    \/ \E f \in Factories : Settle(f)
    \/ \E f \in Factories : SettleCancelled(f)
    \/ Resume
    \/ Finally
    \/ WaiterReturn
    \/ \E k \in Kinds : CreateConfirmer(k)
    \/ ConfirmerReturn
    \/ NewCall

Spec == Init /\ [][Next]_vars

\* The event loop runs every enabled step of the call.  Nothing is assumed
\* of the factories: a racing promise may stay pending forever.
FairSpec ==
    /\ Spec
    /\ WF_vars(Enter)
    /\ WF_vars(DeriveSignature)
    /\ WF_vars(RegisterListener)
    /\ WF_vars(InvokeSpecific)
    /\ WF_vars(InvokeGeneric)
    /\ WF_vars(Resume)
    /\ WF_vars(Finally)
    /\ WF_vars(WaiterReturn)
    /\ WF_vars(ConfirmerReturn)

TypeOK ==
    /\ calls \in 1..MaxCalls
    /\ kind \in Kinds
    /\ pc \in {"start", "derive", "listen", "specific", "generic",
               "awaiting", "finally", "returned", "done"}
    /\ callerAborted \in BOOLEAN
    /\ internalAborted \in BOOLEAN
    /\ listener \in BOOLEAN
    /\ \A f \in Factories : observed[f] \in Nat

\* ------------------------------------------------------------ properties

\* raceStrategies' body ended by a throw inside the try block: in the
\* waiter's callback or in a factory.
ThrownInTry ==
    completion.error = "thrown" /\ completion.by # "getSignatureFromTransaction"

\* raceStrategies has ended and had got as far as creating the internal
\* controller (it left neither at throwIfAborted nor in
\* getSignatureFromTransaction).
EndedAfterController ==
    /\ pc \in {"returned", "done"}
    /\ completion.by \notin {"caller", "getSignatureFromTransaction"}

\* C1: Early abort.  A call entered with the caller's signal already
\* aborted ends at once, raceStrategies rejecting with the caller's abort
\* error, with no factory invoked and no listener registered on the
\* caller's signal; a call that ended this way has invoked nothing and the
\* waiter's promise is rejected with the same error.
C1_EarlyAbort ==
    /\ [](completion.by = "caller"
            => /\ invoked = <<>> /\ ~listener /\ promise = FreshPromises
               /\ pc \in {"returned", "done"}
               /\ pc = "done" => outcome = Rejected("aborted", "caller"))
    /\ [][(pc = "start" /\ callerAborted /\ pc' # "start")
            => /\ pc' = "returned"
               /\ completion' = Rejected("aborted", "caller")
               /\ invoked' = <<>>
               /\ promise' = FreshPromises
               /\ ~listener']_vars

C1_Witness ==
    /\ pc = "done"
    /\ callerAborted
    /\ outcome = Rejected("aborted", "caller")
    /\ invoked = <<>>
    /\ ~listener

\* C2: First settlement wins.  Whenever the race was created and exactly
\* one racing promise has settled while the other is still pending, the
\* race carries that settlement unchanged, and so do the completion taken
\* through finally and the outcome of a completed call.
C2_FirstSettlementWins ==
    \A f \in Factories :
        (/\ RaceCreated
         /\ Settled(promise[f])
         /\ \A g \in Factories \ {f} : promise[g].status = "pending")
        => /\ raceState = promise[f]
           /\ pc \in {"finally", "returned"} => completion = promise[f]
           /\ pc = "done" => outcome = promise[f]

C2_Witness ==
    /\ pc = "done"
    /\ promise["specific"] = Rejected("error", "specific")
    /\ promise["recentSignature"].status = "pending"
    /\ outcome = Rejected("error", "specific")

\* C3: Losers are cancelled.  Once a racing promise has settled during the
\* race the internal signal gets aborted and every factory in flight sees
\* the abort; a completed call that invoked a factory leaves the internal
\* signal aborted and every invoked factory with the abort observed.
C3_InFlightCancelled ==
    \A f \in Factories : promise[f].status # "none" => observed[f] >= 1

C3_LosersCancelled ==
    /\ [](EndedAfterController
            => internalAborted /\ C3_InFlightCancelled)
    /\ ((RaceCreated /\ \E f \in Factories : Settled(promise[f]))
            ~> (internalAborted /\ C3_InFlightCancelled))

C3_Witness ==
    /\ pc = "done"
    /\ ~callerAborted
    /\ cause["specific"] = "condition"
    /\ promise["recentSignature"].status = "pending"
    /\ observed["recentSignature"] = 1
    /\ internalAborted

\* C4: Cleanup invariant.  A completed call, whatever its outcome, leaves
\* no handleAbort listener on the caller's signal.
C4_NoListenerAfterCall == pc \in {"returned", "done"} => ~listener

C4_Witness ==
    /\ pc = "done"
    /\ ~listener
    /\ outcome = Rejected("thrown", "recentSignature")
    /\ ~callerAborted

\* C5: Cancellation transitivity.  When the caller's signal fires while the
\* call is suspended on the race and nothing has settled, the same step
\* aborts the internal signal and every factory in flight sees the abort.
C5_CancellationTransitive ==
    [][(/\ ~callerAborted /\ callerAborted'
        /\ pc = "awaiting"
        /\ \A f \in Factories : promise[f].status = "pending")
        => (internalAborted' /\ \A f \in Factories : observed'[f] = 1)]_vars

C5_Witness ==
    /\ pc = "awaiting"
    /\ callerAborted
    /\ internalAborted
    /\ \A f \in Factories : promise[f].status = "pending" /\ observed[f] = 1

\* C6: Abort during the race.  If the caller's signal has fired while the
\* call is suspended on the race with no racing promise settled, the call
\* ends rejected with an aborted error.  raceStrategies only forwards the
\* abort to the internal signal (handleAbort) and keeps awaiting the race:
\* the call stays pending while no racing promise settles, and it takes
\* whatever a racing promise settles with afterwards.
C6_AbortDuringRace ==
    (/\ pc = "awaiting"
     /\ callerAborted
     /\ \A f \in Factories : promise[f].status = "pending")
    ~> (pc = "done" /\ outcome.status = "rejected" /\ outcome.error = "aborted")

\* C7: At most one outcome.  Once the call has an outcome, no step of the
\* same call (a later settlement of a racing promise, a later abort of the
\* caller's signal) changes it.
C7_AtMostOneOutcome ==
    [][(outcome # None /\ calls' = calls) => outcome' = outcome]_vars

C7_Witness ==
    /\ pc = "done"
    /\ outcome = Resolved("recentSignature")
    /\ promise["specific"] = Rejected("aborted", "specific")
    /\ callerAborted

\* C8: waitForRecentTransactionConfirmation resolves only when the
\* signature-confirmation promise resolved; when the block-height promise
\* settles first because the height was exceeded, the completed call is
\* rejected as invalidated.
C8_RecentResolvesOnlyOnSignature ==
    kind = "blockheight" =>
        /\ outcome.status = "resolved"
            => promise["recentSignature"] = outcome
        /\ (/\ pc = "done"
            /\ RaceCreated
            /\ settleOrder # <<>>
            /\ settleOrder[1] = "specific"
            /\ cause["specific"] = "condition")
            => (outcome.status = "rejected" /\ outcome.error = "invalidated")

\* C9: waitForDurableNonceTransactionConfirmation defers to the signature
\* signal on nonce divergence: when the nonce-invalidation promise settled
\* first because the nonce diverged, the call has no outcome while the
\* signature-confirmation promise is pending, and resolves if that promise
\* resolved.
C9_DefersToSignature ==
    (/\ kind = "nonce"
     /\ settleOrder # <<>>
     /\ settleOrder[1] = "specific"
     /\ cause["specific"] = "condition")
    => /\ promise["recentSignature"].status = "pending" => outcome = None
       /\ (pc = "done" /\ promise["recentSignature"].status = "resolved")
            => outcome.status = "resolved"

\* C10: The caller's signal is read-only to the core.  Its aborted flag is
\* set only by the caller's own abort; the step that aborts the internal
\* signal in finally leaves it unchanged.
C10_CallerSignalReadOnly ==
    [][/\ (~callerAborted /\ callerAborted') => CallerAbort
       /\ pc = "finally" => callerAborted' = callerAborted]_vars

C10_Witness ==
    /\ pc = "done"
    /\ internalAborted
    /\ ~callerAborted
    /\ invoked = <<"specific", "recentSignature">>
    /\ outcome.status = "resolved"

\* C12: Cleanup on synchronous throw.  A call that ended because a factory
\* threw while the racing set was built is rejected with the thrown error,
\* with the internal signal aborted, the caller-abort listener detached and
\* every factory already started having observed the abort.
C12_CleanupOnSyncThrow ==
    /\ (ThrownInTry /\ completion.by \in Factories)
        => (invoked # <<>> /\ completion.by = invoked[Len(invoked)])
    /\ ThrownInTry => pc \in {"finally", "returned", "done"}
    /\ (ThrownInTry /\ pc \in {"returned", "done"})
        => /\ internalAborted
           /\ ~listener
           /\ \A f \in Factories : promise[f].status # "none" => observed[f] = 1
           /\ pc = "done" => outcome = completion

C12_Witness ==
    /\ pc = "done"
    /\ outcome = Rejected("thrown", "recentSignature")
    /\ promise["specific"].status = "pending"
    /\ observed["specific"] = 1
    /\ internalAborted

\* C13 as stated: the internal signal is aborted only if the caller's
\* signal has aborted or some racing promise has settled, and while the
\* caller has not aborted and no racing promise has settled no factory
\* observes cancellation.
C13_NoPrematureCancellation ==
    /\ internalAborted
        => (callerAborted \/ \E f \in Factories : Settled(promise[f]))
    /\ (~callerAborted /\ \A f \in Factories : ~Settled(promise[f]))
        => \A f \in Factories : observed[f] = 0

\* C13 amended: the internal signal is aborted only if the caller's signal
\* has aborted, some racing promise has settled, or building the racing set
\* threw synchronously; while none of the three has happened no factory
\* observes cancellation.
C13_NoPrematureCancellationUnlessThrown ==
    /\ internalAborted
        => \/ callerAborted
           \/ \E f \in Factories : Settled(promise[f])
           \/ ThrownInTry
    /\ (/\ ~callerAborted
        /\ \A f \in Factories : ~Settled(promise[f])
        /\ ~ThrownInTry)
        => \A f \in Factories : observed[f] = 0

C13_Witness ==
    /\ pc = "done"
    /\ ~callerAborted
    /\ completion = Rejected("thrown", "recentSignature")
    /\ internalAborted
    /\ \A f \in Factories : ~Settled(promise[f])
    /\ observed["specific"] = 1

\* C15: Cleanup precedes the outcome.  In every state in which the call has
\* an outcome, the caller-abort listener is detached and, if the call got
\* as far as creating the internal controller, the internal signal is
\* aborted.
C15_CleanupPrecedesOutcome ==
    outcome # None
        => /\ ~listener
           /\ outcome.by \notin {"caller", "getSignatureFromTransaction"}
                => internalAborted

C15_Witness ==
    /\ pc = "done"
    /\ outcome = Rejected("invalidated", "specific")
    /\ internalAborted
    /\ ~listener
    /\ ~callerAborted

\* C16: No internal retry.  Within one call each factory is invoked at most
\* once, whatever the outcome, and the racing set holds exactly the two
\* promises of the lifetime-specific and the signature-confirmation factory.
C16_NoInternalRetry ==
    /\ Len(invoked) <= 2
    /\ \A i \in 1..Len(invoked) : \A j \in 1..Len(invoked) :
        invoked[i] = invoked[j] => i = j
    /\ RaceCreated => {invoked[i] : i \in 1..Len(invoked)} = Factories

C16_Witness ==
    /\ pc = "done"
    /\ outcome = Rejected("error", "recentSignature")
    /\ Len(invoked) = 2
    /\ promise["specific"] = Rejected("aborted", "specific")

\* C17: The coordinator originates no outcome after the entry check.  An
\* outcome is the entry check's abort error (nothing invoked), a
\* synchronously thrown error, or the settlement of a racing promise; and
\* while the call is suspended with every racing promise pending it has no
\* outcome and a step that settles no promise leaves it suspended, also
\* when the caller's signal has fired.
C17_OutcomeIsASettlement ==
    (outcome # None)
        => \/ outcome = Rejected("aborted", "caller") /\ invoked = <<>>
           \/ outcome.error = "thrown"
           \/ outcome.by \in Factories /\ outcome = promise[outcome.by]

C17_NoOutcomeOfItsOwn ==
    /\ []C17_OutcomeIsASettlement
    /\ []((pc = "awaiting" /\ \A f \in Factories : promise[f].status = "pending")
            => outcome = None)
    /\ [][(/\ pc = "awaiting"
           /\ \A f \in Factories : promise[f].status = "pending"
           /\ promise' = promise)
          => (pc' = "awaiting" /\ outcome' = None)]_vars

C17_Witness ==
    /\ pc = "awaiting"
    /\ callerAborted
    /\ internalAborted
    /\ outcome = None
    /\ \A f \in Factories : promise[f].status = "pending"

\* C18: No factory runs without cancellation forwarding.  Whenever a
\* factory has been invoked and the internal signal is not aborted, the
\* forwarding listener is registered; it is registered when the first
\* factory is invoked and is removed only by the abort of the internal
\* signal.
C18_ForwardingWhileInFlight ==
    /\ []((invoked # <<>> /\ ~internalAborted) => listener)
    /\ [][(invoked = <<>> /\ invoked' # <<>>) => listener]_vars
    /\ [][(listener /\ ~listener') => (~internalAborted /\ internalAborted')]_vars

C18_Witness ==
    /\ pc = "awaiting"
    /\ listener
    /\ ~internalAborted
    /\ Len(invoked) = 2
    /\ Settled(promise["recentSignature"])

\* C19: Order of factory invocation.  The lifetime-specific factory is
\* invoked before the signature-confirmation factory; when the
\* lifetime-specific factory throws synchronously the signature-confirmation
\* factory is not invoked and the call is rejected with the thrown error
\* after cleanup.
C19_InvocationOrder ==
    /\ invoked \in {<<>>, <<"specific">>, <<"specific", "recentSignature">>}
    /\ completion = Rejected("thrown", "specific")
        => /\ invoked = <<"specific">>
           /\ promise = FreshPromises
           /\ pc \in {"finally", "returned", "done"}
           /\ pc \in {"returned", "done"} => (internalAborted /\ ~listener)
           /\ pc = "done" => outcome = completion

C19_Witness ==
    /\ pc = "done"
    /\ outcome = Rejected("thrown", "specific")
    /\ invoked = <<"specific">>
    /\ internalAborted

\* C14: Exactly one cleanup pass.  The internal signal fires its abort
\* event at most once per call and exactly once by the time a call that
\* created it completes; no factory observes more than one abort event,
\* also when handleAbort and the finally block both call abort().
C14_ExactlyOneCleanup ==
    /\ aborts <= 1
    /\ \A f \in Factories : observed[f] <= 1
    /\ EndedAfterController => (aborts = 1 /\ internalAborted)

C14_Witness ==
    /\ pc = "done"
    /\ callerAborted
    /\ outcome = Rejected("aborted", "specific")
    /\ aborts = 1
    /\ \A f \in Factories : observed[f] = 1

\* C11: The confirmer functions add nothing to the waiters.  The confirmer
\* function settles only after its waiter call completed and exactly as
\* that call settled, it invokes no factory itself, and the factories of a
\* confirmer are constructed once, at its creation, however many
\* confirmation calls follow.
C11_ConfirmerIsPartialApplication ==
    /\ [](\A k \in Kinds : built[k] <= 1)
    /\ []((via = "confirmer" /\ pc # "start") => built[kind] = 1)
    /\ [](confirmerOutcome # None
            => (via = "confirmer" /\ pc = "done" /\ confirmerOutcome = outcome))
    /\ [][(confirmerOutcome = None /\ confirmerOutcome' # None)
            => (invoked' = invoked /\ promise' = promise /\ built' = built)]_vars

C11_Witness ==
    /\ calls = 2
    /\ via = "confirmer"
    /\ pc = "done"
    /\ built[kind] = 1
    /\ invoked = <<"specific", "recentSignature">>
    /\ confirmerOutcome = Rejected("invalidated", "specific")
====
